---- MODULE Spec2Model ----
(***************************************************************************)
(* Model of the dependency-injection container of bongnv/injector          *)
(* (src/injector.go).  The container is a table from names to dependencies *)
(* plus a counter used to generate names; every public method is one       *)
(* action, because the library is synchronous and single-threaded.  A      *)
(* method that panics leaves behind whatever it had already written; the   *)
(* caller goes on using the container only after it has recovered from the *)
(* panic.                                                                  *)
(***************************************************************************)
EXTENDS FiniteSets, Naturals, Sequences, TLC

VARIABLES
    dependencies,    \* Injector.dependencies: name -> dependency
    unnamedCounter,  \* Injector.unnamedCounter
    heap,            \* fields of the caller's records reachable by pointer
    lastOp,          \* the method called last
    lastName,        \* its name argument (the generated one when anonymous)
    lastDep,         \* the candidate it worked on (input, or produced value)
    lastIn,          \* the factory function or factory object it was given
    err,             \* the value it panicked with, NoErr when it returned
    ret,             \* the value Get returned
    called,          \* whether it invoked the factory function / Create
    pending          \* the registration whose factory is running, if any

vars ==
    <<dependencies, unnamedCounter, heap, lastOp, lastName, lastDep, lastIn, err, ret,
      called, pending>>

(***************************************************************************)
(* Bounds of the model.                                                    *)
(***************************************************************************)
MaxDeps == 3

(***************************************************************************)
(* Constants of the program.                                               *)
(***************************************************************************)
autoInjectionTag == "auto"
unnamedPrefix == "unnamed"

NoTag == "-"

(***************************************************************************)
(* Type descriptors (reflect.Type) of the types the callers use:           *)
(*   type TypeA struct { Field int `injector:"a"` }                        *)
(*   type TypeC struct { Field int `injector:"a"` }                        *)
(*   type TypeE struct { Plain int                                         *)
(*                       Num   int   `injector:"auto"`                     *)
(*                       Svc   Iface `injector:"b"` }                      *)
(*   type FactoryM struct{}                                                *)
(* *TypeA satisfies the interface Iface; *TypeE, TypeE and FactoryM have a *)
(* Create method, so they are Factory implementations.  A function passed  *)
(* as a plain value has the type of its signature.                         *)
(***************************************************************************)
BasicTypes == {"int", "string"}
StructTypes == {"TypeA", "TypeC", "TypeE", "FactoryM"}
PtrTypes == {"*TypeA", "*TypeE"}
InterfaceTypes == {"Iface", "error"}
FuncTypes == {"func() (int, error)"}

Kind(t) ==
    CASE t \in BasicTypes -> "basic"
      [] t \in StructTypes -> "struct"
      [] t \in PtrTypes -> "ptr"
      [] t \in InterfaceTypes -> "interface"
      [] t \in FuncTypes -> "func"
      [] OTHER -> "invalid"

Elem(t) ==
    CASE t = "*TypeA" -> "TypeA"
      [] t = "*TypeE" -> "TypeE"
      [] OTHER -> "invalid"

\* the fields of each record type, in declaration order, with their
\* injector tag (NoTag when the field has none)
Fields(t) ==
    CASE t = "TypeA" -> << [tag |-> "a", ftype |-> "int"] >>
      [] t = "TypeC" -> << [tag |-> "a", ftype |-> "int"] >>
      [] t = "TypeE" -> << [tag |-> NoTag, ftype |-> "int"],
                           [tag |-> autoInjectionTag, ftype |-> "int"],
                           [tag |-> "b", ftype |-> "Iface"],
                           [tag |-> NoTag, ftype |-> "TypeC"] >>
      [] OTHER -> << >>

\* the types whose method set satisfies an interface type
Implementers(t) ==
    CASE t = "Iface" -> {"*TypeA", "Iface"}
      [] t = "error" -> {"error"}
      [] OTHER -> {}

\* reflect.Type.AssignableTo
AssignableTo(src, dst) ==
    \/ src = dst
    \/ Kind(dst) = "interface" /\ src \in Implementers(dst)

isStructPtr(t) == Kind(t) = "ptr" /\ Kind(Elem(t)) = "struct"

implementsError(t) == t \in Implementers("error")

(***************************************************************************)
(* Values.  A dependency is a value with its type; a pointer's value is    *)
(* the identity of the record it points to.                                *)
(***************************************************************************)
Val(t, v) == [type |-> t, val |-> v]

NoValue == Val("none", "none")
Zero == Val("zero", "zero")

Objects == {"oA", "oE"}

I10 == Val("int", "10")
I20 == Val("int", "20")
S1 == Val("string", "s")
PA == Val("*TypeA", "oA")
PE == Val("*TypeE", "oE")
CV == Val("TypeC", "c")
IA == Val("Iface", "oA")
\* the function fnOk passed as a value
FV == Val("func() (int, error)", "fnOk")

\* what callers pass to Component / NamedComponent / Inject
Inputs == {I10, S1, PA, PE, CV, FV}

\* the names callers register
Names == {autoInjectionTag, "a", "b", "unnamed.0"}

\* the names callers look up
GetNames == {"a", "unnamed.1"}

\* what callers pass to Inject
InjectInputs == {I10, PA, PE, CV}

(***************************************************************************)
(* Errors, one kind per message of the source.                             *)
(***************************************************************************)
Err(k, x, y) == [kind |-> k, a |-> x, b |-> y]

NoErr == Err("none", "", "")
DuplicateNameError(name) == Err("DuplicateName", name, "")
ReservedNameError == Err("ReservedName", autoInjectionTag, "")
NotFoundError == Err("NotFound", "", "")
NotInjectableError(t) == Err("NotInjectable", t, "")
NotRegisteredError(tag) == Err("NotRegistered", tag, "")
NotAssignableError(ft, dt) == Err("NotAssignable", ft, dt)
FactoryFunctionExpectedError == Err("FactoryFunctionExpected", "", "")
UnsupportedFactoryError == Err("UnsupportedFactory", "", "")
SecondResultNotErrorError == Err("SecondResultNotError", "", "")
NotFoundForTypeError(t) == Err("NotFoundForType", t, "")
AmbiguousTypeError(t) == Err("AmbiguousType", t, "")
FactoryFailure(e) == Err("FactoryFailure", e, "")

(***************************************************************************)
(* The table.                                                              *)
(***************************************************************************)
Bound(d) == DOMAIN d

EmptyTable == [n \in {} |-> NoValue]

\* a store that starts a new table
Store_Fresh(d, name, dep) ==
    [n \in {name} |-> dep]

\* c.dependencies[name] = dep
Store(d, name, dep) ==
    [n \in Bound(d) \cup {name} |-> IF n = name THEN dep ELSE d[n]]

\* fmt.Sprintf("%s.%d", unnamedPrefix, n)
GeneratedName(n) == unnamedPrefix \o "." \o ToString(n)

\* the orders in which a range over the table may visit its keys: Go
\* leaves the iteration order of a map unspecified
RECURSIVE Orders(_)
Orders(keys) ==
    IF keys = {}
    THEN { << >> }
    ELSE UNION { { <<k>> \o o : o \in Orders(keys \ {k}) } : k \in keys }

(***************************************************************************)
(* Factory functions and factory objects the callers pass.  A function is  *)
(* described by its signature (reflect.Type of the function) and by what   *)
(* its body does: it returns result, or fails with the error fail when     *)
(* fail is not the empty string.  A result of type "param" stands for a    *)
(* body that returns its last parameter.                                   *)
(***************************************************************************)
Fn(i, isf, in, out, res, f) ==
    [id |-> i, isFunc |-> isf, ins |-> in, outs |-> out, result |-> res, fail |-> f]

fnOk == Fn("fnOk", TRUE, << >>, <<"int", "error">>, I20, "")
fnDep == Fn("fnDep", TRUE, <<"string">>, <<"int", "error">>, I20, "")
fnErr == Fn("fnErr", TRUE, <<"string">>, <<"int", "error">>, Val("int", "0"), "random error")
fnNone == Fn("fnNone", TRUE, << >>, << >>, NoValue, "")
fnThree == Fn("fnThree", TRUE, << >>, <<"int", "int", "error">>, I20, "")
fnNotErr == Fn("fnNotErr", TRUE, << >>, <<"string", "int">>, S1, "")
fnPtr == Fn("fnPtr", TRUE, <<"int">>, <<"*TypeE">>, PE, "")
fnIface == Fn("fnIface", TRUE, << >>, <<"Iface">>, PA, "")
fnEcho == Fn("fnEcho", TRUE, <<"int", "string">>, <<"string">>, Val("param", "last"), "")
notAFunc == Fn("notAFunc", FALSE, << >>, << >>, I10, "")

FactoryFns ==
    {fnOk, fnDep, fnErr, fnNone, fnThree, fnNotErr, fnPtr, fnIface, fnEcho, notAFunc}

Factory(i, s, res, f) == [id |-> i, self |-> s, result |-> res, fail |-> f]

FM == Val("FactoryM", "m")
EV == Val("TypeE", "e")

facPlain == Factory("facPlain", FM, S1, "")
facErr == Factory("facErr", FM, NoValue, "random error")
facInj == Factory("facInj", PE, PA, "")
facInjErr == Factory("facInjErr", PE, NoValue, "random error")
facByValue == Factory("facByValue", EV, S1, "")

Factories == {facPlain, facErr, facInj, facInjErr, facByValue}

(***************************************************************************)
(* The unexported methods of Injector.  A method whose result depends on   *)
(* the order of a range over the table yields the set of its possible      *)
(* results, one per order.                                                 *)
(***************************************************************************)
\* findByType returning the first match it meets
RECURSIVE findByTypeLoop_FirstMatch(_, _, _, _, _)
findByTypeLoop_FirstMatch(d, t, ord, i, foundVal) ==
    IF i > Len(ord)
    THEN [err |-> NotFoundForTypeError(t), dep |-> NoValue]
    ELSE IF AssignableTo(d[ord[i]].type, t)
         THEN [err |-> NoErr, dep |-> d[ord[i]]]
         ELSE findByTypeLoop_FirstMatch(d, t, ord, i + 1, foundVal)

\* the body of findByType, ranging over the table in the order ord
RECURSIVE findByTypeLoop(_, _, _, _, _)
findByTypeLoop(d, t, ord, i, foundVal) ==
    IF i > Len(ord)
    THEN IF foundVal = NoValue
         THEN [err |-> NotFoundForTypeError(t), dep |-> NoValue]
         ELSE [err |-> NoErr, dep |-> foundVal]
    ELSE LET v == d[ord[i]]
         IN IF AssignableTo(v.type, t)
            THEN IF foundVal # NoValue
                 THEN [err |-> AmbiguousTypeError(t), dep |-> NoValue]
                 ELSE findByTypeLoop(d, t, ord, i + 1, v)
            ELSE findByTypeLoop(d, t, ord, i + 1, foundVal)

findByType(d, t) ==
    { findByTypeLoop(d, t, ord, 1, NoValue) : ord \in Orders(Bound(d)) }

\* loadDepForTag falling back to the lookup by type for an unbound name
loadDepForTag_FallBackToType(d, tag, t) ==
    IF tag = autoInjectionTag \/ tag \notin Bound(d)
    THEN findByType(d, t)
    ELSE { [err |-> NoErr, dep |-> d[tag]] }

loadDepForTag(d, tag, t) ==
    IF tag = autoInjectionTag
    THEN findByType(d, t)
    ELSE IF tag \notin Bound(d)
         THEN { [err |-> NotRegisteredError(tag), dep |-> NoValue] }
         ELSE { [err |-> NoErr, dep |-> d[tag]] }

hasInjectTag(dep) ==
    /\ Kind(dep.type) = "struct"
    /\ \E i \in 1..Len(Fields(dep.type)) : Fields(dep.type)[i].tag # NoTag

\* populate without the check that the dependency is assignable
RECURSIVE populateLoop_NoAssignableCheck(_, _, _, _)
populateLoop_NoAssignableCheck(d, h, dep, i) ==
    LET fs == Fields(Elem(dep.type))
    IN IF i > Len(fs)
       THEN { [err |-> NoErr, heap |-> h] }
       ELSE IF fs[i].tag = NoTag
            THEN populateLoop_NoAssignableCheck(d, h, dep, i + 1)
            ELSE UNION {
                   IF loaded.err # NoErr
                   THEN { [err |-> loaded.err, heap |-> h] }
                   ELSE populateLoop_NoAssignableCheck(
                            d, [h EXCEPT ![dep.val][i] = loaded.dep], dep, i + 1)
                   : loaded \in loadDepForTag(d, fs[i].tag, fs[i].ftype) }

\* populate taking a field without a tag for a field tagged "auto"
RECURSIVE populateLoop_UntaggedAsAuto(_, _, _, _)
populateLoop_UntaggedAsAuto(d, h, dep, i) ==
    LET fs == Fields(Elem(dep.type))
        tag == IF fs[i].tag = NoTag THEN autoInjectionTag ELSE fs[i].tag
    IN IF i > Len(fs)
       THEN { [err |-> NoErr, heap |-> h] }
       ELSE UNION {
              IF loaded.err # NoErr
              THEN { [err |-> loaded.err, heap |-> h] }
              ELSE IF ~AssignableTo(loaded.dep.type, fs[i].ftype)
                   THEN { [err |-> NotAssignableError(fs[i].ftype, loaded.dep.type),
                           heap |-> h] }
                   ELSE populateLoop_UntaggedAsAuto(
                            d, [h EXCEPT ![dep.val][i] = loaded.dep], dep, i + 1)
              : loaded \in loadDepForTag(d, tag, fs[i].ftype) }

\* the loop of populate over the fields of the record dep points to,
\* from field i on
RECURSIVE populateLoop(_, _, _, _)
populateLoop(d, h, dep, i) ==
    LET fs == Fields(Elem(dep.type))
    IN IF i > Len(fs)
       THEN { [err |-> NoErr, heap |-> h] }
       ELSE IF fs[i].tag = NoTag
            THEN populateLoop(d, h, dep, i + 1)
            ELSE UNION {
                   IF loaded.err # NoErr
                   THEN { [err |-> loaded.err, heap |-> h] }
                   ELSE IF ~AssignableTo(loaded.dep.type, fs[i].ftype)
                        THEN { [err |-> NotAssignableError(fs[i].ftype, loaded.dep.type),
                                heap |-> h] }
                        ELSE populateLoop(d, [h EXCEPT ![dep.val][i] = loaded.dep],
                                          dep, i + 1)
                   : loaded \in loadDepForTag(d, fs[i].tag, fs[i].ftype) }

\* populate without the check for a tagged record passed by value
populate_NoTagCheck(d, h, dep) ==
    IF ~isStructPtr(dep.type)
    THEN { [err |-> NoErr, heap |-> h] }
    ELSE populateLoop(d, h, dep, 1)

\* populate undoing the fields it assigned when a later field fails
populate_Rollback(d, h, dep) ==
    IF ~isStructPtr(dep.type)
    THEN IF hasInjectTag(dep)
         THEN { [err |-> NotInjectableError(dep.type), heap |-> h] }
         ELSE { [err |-> NoErr, heap |-> h] }
    ELSE { IF p.err # NoErr THEN [err |-> p.err, heap |-> h] ELSE p
           : p \in populateLoop(d, h, dep, 1) }

populate(d, h, dep) ==
    IF ~isStructPtr(dep.type)
    THEN IF hasInjectTag(dep)
         THEN { [err |-> NotInjectableError(dep.type), heap |-> h] }
         ELSE { [err |-> NoErr, heap |-> h] }
    ELSE populateLoop(d, h, dep, 1)

\* the loop of generateInParams, from parameter i on
RECURSIVE generateInParamsLoop(_, _, _)
generateInParamsLoop(d, ins, i) ==
    IF i > Len(ins)
    THEN { [err |-> NoErr, params |-> << >>] }
    ELSE UNION {
           IF param.err # NoErr
           THEN { [err |-> param.err, params |-> << >>] }
           ELSE { IF rest.err # NoErr
                  THEN rest
                  ELSE [err |-> NoErr, params |-> <<param.dep>> \o rest.params]
                  : rest \in generateInParamsLoop(d, ins, i + 1) }
           : param \in findByType(d, ins[i]) }

generateInParams(d, fn) == generateInParamsLoop(d, fn.ins, 1)

\* fnVal.Call(inParams): the results of the function's body
Call(fn, inParams) ==
    LET value == IF fn.result.type = "param"
                 THEN inParams[Len(inParams)].val
                 ELSE fn.result.val
    IN IF fn.fail # ""
       THEN [value |-> value, error |-> fn.fail]
       ELSE [value |-> value, error |-> ""]

\* executeFunc without the check of the type of the second result
executeFunc_NoErrorCheck(d, fn) ==
    IF Len(fn.outs) > 2 \/ Len(fn.outs) < 1
    THEN { [err |-> UnsupportedFactoryError, dep |-> NoValue, called |-> FALSE] }
    ELSE { IF inParams.err # NoErr
           THEN [err |-> inParams.err, dep |-> NoValue, called |-> FALSE]
           ELSE LET out == Call(fn, inParams.params)
                IN IF Len(fn.outs) = 2 /\ out.error # ""
                   THEN [err |-> FactoryFailure(out.error), dep |-> NoValue,
                         called |-> TRUE]
                   ELSE [err |-> NoErr, dep |-> Val(fn.outs[1], out.value),
                         called |-> TRUE]
           : inParams \in generateInParams(d, fn) }

\* executeFunc without the check of the error the function returned
executeFunc_IgnoreError(d, fn) ==
    IF Len(fn.outs) > 2 \/ Len(fn.outs) < 1
    THEN { [err |-> UnsupportedFactoryError, dep |-> NoValue, called |-> FALSE] }
    ELSE IF Len(fn.outs) = 2 /\ ~implementsError(fn.outs[2])
         THEN { [err |-> SecondResultNotErrorError, dep |-> NoValue, called |-> FALSE] }
         ELSE { IF inParams.err # NoErr
                THEN [err |-> inParams.err, dep |-> NoValue, called |-> FALSE]
                ELSE [err |-> NoErr,
                      dep |-> Val(fn.outs[1], Call(fn, inParams.params).value),
                      called |-> TRUE]
                : inParams \in generateInParams(d, fn) }

executeFunc(d, fn) ==
    IF Len(fn.outs) > 2 \/ Len(fn.outs) < 1
    THEN { [err |-> UnsupportedFactoryError, dep |-> NoValue, called |-> FALSE] }
    ELSE IF Len(fn.outs) = 2 /\ ~implementsError(fn.outs[2])
         THEN { [err |-> SecondResultNotErrorError, dep |-> NoValue, called |-> FALSE] }
         ELSE { IF inParams.err # NoErr
                THEN [err |-> inParams.err, dep |-> NoValue, called |-> FALSE]
                ELSE LET out == Call(fn, inParams.params)
                     IN IF Len(fn.outs) = 2 /\ out.error # ""
                        THEN [err |-> FactoryFailure(out.error), dep |-> NoValue,
                              called |-> TRUE]
                        ELSE [err |-> NoErr, dep |-> Val(fn.outs[1], out.value),
                              called |-> TRUE]
                : inParams \in generateInParams(d, fn) }

\* nextGeneratedName without the loop that skips bound names
nextGeneratedName_NoSkip(d, counter) ==
    [name |-> GeneratedName(counter), counter |-> counter]

\* nextGeneratedName moving the counter past the name it returns
RECURSIVE nextGeneratedName_AlwaysAdvance(_, _)
nextGeneratedName_AlwaysAdvance(d, counter) ==
    LET newName == GeneratedName(counter)
    IN IF newName \notin Bound(d)
       THEN [name |-> newName, counter |-> counter + 1]
       ELSE nextGeneratedName_AlwaysAdvance(d, counter + 1)

RECURSIVE nextGeneratedName(_, _)
nextGeneratedName(d, counter) ==
    LET newName == GeneratedName(counter)
    IN IF newName \notin Bound(d)
       THEN [name |-> newName, counter |-> counter]
       ELSE nextGeneratedName(d, counter + 1)

\* validateNamne without the check for a bound name
validateNamne_NoDuplicateCheck(d, name) ==
    IF name = autoInjectionTag
    THEN ReservedNameError
    ELSE NoErr

\* validateNamne without the check for the reserved name
validateNamne_NoReservedCheck(d, name) ==
    IF name \in Bound(d)
    THEN DuplicateNameError(name)
    ELSE NoErr

validateNamne(d, name) ==
    IF name \in Bound(d)
    THEN DuplicateNameError(name)
    ELSE IF name = autoInjectionTag
         THEN ReservedNameError
         ELSE NoErr

(***************************************************************************)
(* The exported methods, as functions of the container's state.  Each      *)
(* yields the outcomes it can have: the state the method leaves behind and *)
(* the value it panics with (NoErr when it returns).                       *)
(***************************************************************************)
Outcome(d, c, h, e, dep, cl) ==
    [deps |-> d, counter |-> c, heap |-> h, err |-> e, dep |-> dep, called |-> cl]

\* NamedComponent storing the dependency before it is populated
DoNamedComponent_StoreFirst(d, c, h, name, dep) ==
    LET invalid == validateNamne(d, name)
    IN IF invalid # NoErr
       THEN { Outcome(d, c, h, invalid, dep, FALSE) }
       ELSE { Outcome(Store(d, name, dep), c, p.heap, p.err, dep, FALSE)
              : p \in populate(d, h, dep) }

\* NamedComponent populating the dependency against a table that already
\* holds it
DoNamedComponent_SelfVisible(d, c, h, name, dep) ==
    LET invalid == validateNamne(d, name)
    IN IF invalid # NoErr
       THEN { Outcome(d, c, h, invalid, dep, FALSE) }
       ELSE { IF p.err # NoErr
              THEN Outcome(d, c, p.heap, p.err, dep, FALSE)
              ELSE Outcome(Store(d, name, dep), c, p.heap, NoErr, dep, FALSE)
              : p \in populate(Store(d, name, dep), h, dep) }

\* NamedComponent validating the name after it populated the dependency
DoNamedComponent_ValidateLast(d, c, h, name, dep) ==
    LET invalid == validateNamne(d, name)
    IN { IF p.err # NoErr
         THEN Outcome(d, c, p.heap, p.err, dep, FALSE)
         ELSE IF invalid # NoErr
              THEN Outcome(d, c, p.heap, invalid, dep, FALSE)
              ELSE Outcome(Store(d, name, dep), c, p.heap, NoErr, dep, FALSE)
         : p \in populate(d, h, dep) }

DoNamedComponent(d, c, h, name, dep) ==
    LET invalid == validateNamne(d, name)
    IN IF invalid # NoErr
       THEN { Outcome(d, c, h, invalid, dep, FALSE) }
       ELSE { IF p.err # NoErr
              THEN Outcome(d, c, p.heap, p.err, dep, FALSE)
              ELSE Outcome(Store(d, name, dep), c, p.heap, NoErr, dep, FALSE)
              : p \in populate(d, h, dep) }

DoNamedComponentFromFunc(d, c, h, name, fn) ==
    LET invalid == validateNamne(d, name)
    IN IF invalid # NoErr
       THEN { Outcome(d, c, h, invalid, NoValue, FALSE) }
       ELSE IF ~fn.isFunc
            THEN { Outcome(d, c, h, FactoryFunctionExpectedError, NoValue, FALSE) }
            ELSE UNION {
                   IF created.err # NoErr
                   THEN { Outcome(d, c, h, created.err, NoValue, created.called) }
                   ELSE { IF p.err # NoErr
                          THEN Outcome(d, c, p.heap, p.err, created.dep, TRUE)
                          ELSE Outcome(Store(d, name, created.dep), c, p.heap,
                                       NoErr, created.dep, TRUE)
                          : p \in populate(d, h, created.dep) }
                   : created \in executeFunc(d, fn) }

\* Inject registering the object it populated
DoInject_Register(d, c, h, object) ==
    { IF p.err # NoErr
      THEN Outcome(d, c, p.heap, p.err, object, FALSE)
      ELSE Outcome(Store(d, nextGeneratedName(d, c).name, object),
                   nextGeneratedName(d, c).counter, p.heap, NoErr, object, FALSE)
      : p \in populate(d, h, object) }

DoInject(d, c, h, object) ==
    { Outcome(d, c, p.heap, p.err, object, FALSE) : p \in populate(d, h, object) }

\* f.Create()
Create(f) ==
    IF f.fail # ""
    THEN [component |-> NoValue, error |-> f.fail]
    ELSE [component |-> f.result, error |-> ""]

\* NamedComponentFromFactory calling Create before it populates the factory
DoNamedComponentFromFactory_CreateFirst(d, c, h, name, f) ==
    LET created == Create(f)
    IN IF created.error # ""
       THEN { Outcome(d, c, h, FactoryFailure(created.error), NoValue, TRUE) }
       ELSE UNION {
              IF injected.err # NoErr
              THEN { Outcome(d, c, injected.heap, injected.err, NoValue, TRUE) }
              ELSE { Outcome(r.deps, c, r.heap, r.err, created.component, TRUE)
                     : r \in DoNamedComponent(d, c, injected.heap, name,
                                              created.component) }
              : injected \in DoInject(d, c, h, f.self) }

\* NamedComponentFromFactory without the check of the error of Create
DoNamedComponentFromFactory_IgnoreCreateError(d, c, h, name, f) ==
    UNION {
      IF injected.err # NoErr
      THEN { Outcome(d, c, injected.heap, injected.err, NoValue, FALSE) }
      ELSE { Outcome(r.deps, c, r.heap, r.err, Create(f).component, TRUE)
             : r \in DoNamedComponent(d, c, injected.heap, name, Create(f).component) }
      : injected \in DoInject(d, c, h, f.self) }

\* NamedComponentFromFactory registering the factory instead of what Create
\* returned
DoNamedComponentFromFactory_BindFactory(d, c, h, name, f) ==
    UNION {
      IF injected.err # NoErr
      THEN { Outcome(d, c, injected.heap, injected.err, NoValue, FALSE) }
      ELSE LET created == Create(f)
           IN IF created.error # ""
              THEN { Outcome(d, c, injected.heap, FactoryFailure(created.error),
                             NoValue, TRUE) }
              ELSE { Outcome(r.deps, c, r.heap, r.err, f.self, TRUE)
                     : r \in DoNamedComponent(d, c, injected.heap, name, f.self) }
      : injected \in DoInject(d, c, h, f.self) }

DoNamedComponentFromFactory(d, c, h, name, f) ==
    UNION {
      IF injected.err # NoErr
      THEN { Outcome(d, c, injected.heap, injected.err, NoValue, FALSE) }
      ELSE LET created == Create(f)
           IN IF created.error # ""
              THEN { Outcome(d, c, injected.heap, FactoryFailure(created.error),
                             NoValue, TRUE) }
              ELSE { Outcome(r.deps, c, r.heap, r.err, created.component, TRUE)
                     : r \in DoNamedComponent(d, c, injected.heap, name,
                                              created.component) }
      : injected \in DoInject(d, c, h, f.self) }

\* Get without the check that the name is bound
DoGet_NoFoundCheck(d, name) ==
    [err |-> NoErr, value |-> IF name \in Bound(d) THEN d[name] ELSE NoValue]

DoGet(d, name) ==
    IF name \notin Bound(d)
    THEN [err |-> NotFoundError, value |-> NoValue]
    ELSE [err |-> NoErr, value |-> d[name]]

(***************************************************************************)
(* The state machine.                                                      *)
(***************************************************************************)
InitHeap ==
    [o \in Objects |->
        CASE o = "oA" -> << Zero >>
          [] o = "oE" -> << Val("int", "7"), Zero, Zero, CV >>]

\* no registration is waiting for its factory to return
NoCall == [op |-> "", name |-> "", innerOp |-> "", innerName |-> "", stage |-> ""]

Init ==
    /\ dependencies = EmptyTable
    /\ unnamedCounter = 0
    /\ heap = InitHeap
    /\ lastOp = "New"
    /\ lastName = ""
    /\ lastDep = NoValue
    /\ lastIn = ""
    /\ err = NoErr
    /\ ret = NoValue
    /\ called = FALSE
    /\ pending = NoCall

\* registrations are explored while the table holds fewer than MaxDeps
Room == Cardinality(Bound(dependencies)) < MaxDeps

\* no panic is unwinding: the caller can make a call
Running == err = NoErr

Finish(op, name, r) ==
    /\ dependencies' = r.deps
    /\ unnamedCounter' = r.counter
    /\ heap' = r.heap
    /\ lastOp' = op
    /\ lastName' = name
    /\ lastDep' = r.dep
    /\ err' = r.err
    /\ ret' = NoValue
    /\ called' = r.called
    /\ pending' = NoCall

NamedComponent ==
    /\ Running
    /\ Room
    /\ \E name \in Names, dep \in Inputs :
          \E r \in DoNamedComponent(dependencies, unnamedCounter, heap, name, dep) :
              Finish("NamedComponent", name, r) /\ lastIn' = ""

NamedComponentFromFunc ==
    /\ Running
    /\ Room
    /\ \E name \in Names, fn \in FactoryFns :
          \E r \in DoNamedComponentFromFunc(dependencies, unnamedCounter, heap, name, fn) :
              Finish("NamedComponentFromFunc", name, r) /\ lastIn' = fn.id

ComponentFromFunc ==
    /\ Running
    /\ Room
    /\ \E fn \in FactoryFns :
          LET g == nextGeneratedName(dependencies, unnamedCounter)
          IN \E r \in DoNamedComponentFromFunc(dependencies, g.counter, heap, g.name, fn) :
                 Finish("ComponentFromFunc", g.name, r) /\ lastIn' = fn.id

ComponentFromFactory ==
    /\ Running
    /\ Room
    /\ \E f \in Factories :
          LET g == nextGeneratedName(dependencies, unnamedCounter)
          IN \E r \in DoNamedComponentFromFactory(dependencies, g.counter, heap, g.name, f) :
                 Finish("ComponentFromFactory", g.name, r) /\ lastIn' = f.id

NamedComponentFromFactory ==
    /\ Running
    /\ Room
    /\ \E name \in Names, f \in Factories :
          \E r \in DoNamedComponentFromFactory(dependencies, unnamedCounter, heap, name, f) :
              Finish("NamedComponentFromFactory", name, r) /\ lastIn' = f.id

Get ==
    /\ Running
    /\ \E name \in GetNames :
        LET r == DoGet(dependencies, name)
        IN /\ lastOp' = "Get"
           /\ lastName' = name
           /\ lastDep' = NoValue
           /\ lastIn' = ""
           /\ err' = r.err
           /\ ret' = r.value
           /\ called' = FALSE
           /\ UNCHANGED <<dependencies, unnamedCounter, heap, pending>>

Component ==
    /\ Running
    /\ Room
    /\ \E dep \in Inputs :
          LET g == nextGeneratedName(dependencies, unnamedCounter)
          IN \E r \in DoNamedComponent(dependencies, g.counter, heap, g.name, dep) :
                 Finish("Component", g.name, r) /\ lastIn' = ""

Inject ==
    /\ Running
    /\ \E object \in InjectInputs :
        \E r \in DoInject(dependencies, unnamedCounter, heap, object) :
            Finish("Inject", "", r) /\ lastIn' = ""

\* the caller recovers from the panic of the last call
Recover ==
    /\ ~Running
    /\ lastOp' = "recover"
    /\ lastName' = ""
    /\ lastDep' = NoValue
    /\ lastIn' = ""
    /\ err' = NoErr
    /\ ret' = NoValue
    /\ called' = FALSE
    /\ UNCHANGED <<dependencies, unnamedCounter, heap, pending>>

Next ==
    \/ Recover
    \/ NamedComponent
    \/ NamedComponentFromFunc
    \/ ComponentFromFunc
    \/ ComponentFromFactory
    \/ NamedComponentFromFactory
    \/ Get
    \/ Component
    \/ Inject

Spec == Init /\ [][Next]_vars

(***************************************************************************)
(* Factories that register.  A factory function, or the Create of a        *)
(* factory, is code of the caller: it can hold the Injector and call its   *)
(* methods, and it then does so in the middle of the registration that     *)
(* invoked it.  pending holds that registration from the moment the        *)
(* factory is invoked until it returns or panics.  The factories here      *)
(* register the int 10, by name or anonymously; the function then returns  *)
(* the int 20 and Create the string "s".                                   *)
(***************************************************************************)
\* the calls the body of a factory makes
InnerCalls ==
    { [op |-> "NamedComponent", name |-> n] : n \in {"a", "b"} }
        \cup { [op |-> "Component", name |-> ""] }

\* the names callers give to a registration with such a factory
OuterNames == {"a", "unnamed.0"}

Idle == pending = NoCall

\* there is room for the n registrations of a call
RoomFor(n) == Cardinality(Bound(dependencies)) + n <= MaxDeps

\* the factory is invoked: the body is about to run
Invoke(op, name, counter, inner) ==
    /\ pending' = [op |-> op, name |-> name, innerOp |-> inner.op,
                   innerName |-> inner.name, stage |-> "body"]
    /\ unnamedCounter' = counter
    /\ lastOp' = op
    /\ lastName' = name
    /\ lastDep' = NoValue
    /\ lastIn' = "registers"
    /\ err' = NoErr
    /\ ret' = NoValue
    /\ called' = TRUE
    /\ UNCHANGED <<dependencies, heap>>

\* NamedComponentFromFunc up to fnVal.Call in executeFunc
EnterNamedComponentFromFunc ==
    /\ Idle /\ Running /\ RoomFor(2)
    /\ \E name \in OuterNames, inner \in InnerCalls :
          LET invalid == validateNamne(dependencies, name)
          IN IF invalid # NoErr
             THEN Finish("NamedComponentFromFunc", name,
                         Outcome(dependencies, unnamedCounter, heap, invalid,
                                 NoValue, FALSE))
                  /\ lastIn' = "registers"
             ELSE Invoke("NamedComponentFromFunc", name, unnamedCounter, inner)

\* ComponentFromFunc up to fnVal.Call in executeFunc
EnterComponentFromFunc ==
    /\ Idle /\ Running /\ RoomFor(2)
    /\ \E inner \in InnerCalls :
          LET g == nextGeneratedName(dependencies, unnamedCounter)
          IN Invoke("ComponentFromFunc", g.name, g.counter, inner)

\* NamedComponentFromFactory up to f.Create(); the factory has no tagged
\* field, so that c.Inject(f) assigns nothing
EnterNamedComponentFromFactory ==
    /\ Idle /\ Running /\ RoomFor(2)
    /\ \E name \in OuterNames, inner \in InnerCalls :
          \E injected \in DoInject(dependencies, unnamedCounter, heap, FM) :
              Invoke("NamedComponentFromFactory", name, injected.counter, inner)

\* ComponentFromFactory up to f.Create()
EnterComponentFromFactory ==
    /\ Idle /\ Running /\ RoomFor(2)
    /\ \E inner \in InnerCalls :
          LET g == nextGeneratedName(dependencies, unnamedCounter)
          IN \E injected \in DoInject(dependencies, g.counter, heap, FM) :
                 Invoke("ComponentFromFactory", g.name, injected.counter, inner)

\* the call the body of the factory makes
DoInner(d, c, h, op, name) ==
    IF op = "Component"
    THEN LET g == nextGeneratedName(d, c)
         IN { [name |-> g.name, out |-> r]
              : r \in DoNamedComponent(d, g.counter, h, g.name, I10) }
    ELSE { [name |-> name, out |-> r] : r \in DoNamedComponent(d, c, h, name, I10) }

\* the body of the factory runs: it registers and returns, or the
\* registration panics and the panic ends the pending registration too
Body ==
    /\ pending.stage = "body"
    /\ \E r \in DoInner(dependencies, unnamedCounter, heap,
                        pending.innerOp, pending.innerName) :
          IF r.out.err # NoErr
          THEN Finish(pending.op, pending.name,
                      Outcome(r.out.deps, r.out.counter, r.out.heap, r.out.err,
                              NoValue, TRUE))
               /\ lastIn' = "registers"
          ELSE /\ dependencies' = r.out.deps
               /\ unnamedCounter' = r.out.counter
               /\ heap' = r.out.heap
               /\ pending' = [pending EXCEPT !.stage = "returned"]
               /\ lastOp' = pending.innerOp
               /\ lastName' = r.name
               /\ lastDep' = I10
               /\ lastIn' = ""
               /\ err' = NoErr
               /\ ret' = NoValue
               /\ called' = FALSE

\* NamedComponentFromFunc after executeFunc returned the result of the
\* function: it populates the result and stores it
CompleteFromFunc ==
    /\ pending.stage = "returned"
    /\ pending.op \in {"NamedComponentFromFunc", "ComponentFromFunc"}
    /\ \E p \in populate(dependencies, heap, I20) :
          /\ Finish(pending.op, pending.name,
                    IF p.err # NoErr
                    THEN Outcome(dependencies, unnamedCounter, p.heap, p.err, I20, TRUE)
                    ELSE Outcome(Store(dependencies, pending.name, I20),
                                 unnamedCounter, p.heap, NoErr, I20, TRUE))
          /\ lastIn' = "registers"

\* NamedComponentFromFactory after f.Create() returned the component: it
\* calls NamedComponent
CompleteFromFactory ==
    /\ pending.stage = "returned"
    /\ pending.op \in {"NamedComponentFromFactory", "ComponentFromFactory"}
    /\ \E r \in DoNamedComponent(dependencies, unnamedCounter, heap, pending.name, S1) :
          /\ Finish(pending.op, pending.name, [r EXCEPT !.called = TRUE])
          /\ lastIn' = "registers"

NextReentrant ==
    \/ Idle /\ Recover
    \/ Idle /\ NamedComponent
    \/ Idle /\ Get
    \/ Idle /\ Inject
    \/ EnterNamedComponentFromFunc
    \/ EnterComponentFromFunc
    \/ EnterNamedComponentFromFactory
    \/ EnterComponentFromFactory
    \/ Body
    \/ CompleteFromFunc
    \/ CompleteFromFactory

SpecReentrant == Init /\ [][NextReentrant]_vars

(***************************************************************************)
(* Vocabulary of the properties.                                           *)
(***************************************************************************)
NamedOps == {"NamedComponent", "NamedComponentFromFunc", "NamedComponentFromFactory"}
AnonymousOps == {"Component", "ComponentFromFunc", "ComponentFromFactory"}
RegisterOps == NamedOps \cup AnonymousOps

\* the names bound to a dependency whose type is assignable to t
Matches(d, t) == {n \in Bound(d) : AssignableTo(d[n].type, t)}

\* the step is a call whose candidate is c and whose population was started
Populated(c) ==
    /\ lastOp' \in RegisterOps \cup {"Inject"}
    /\ lastDep' = c
    /\ err'.kind \notin {"DuplicateName", "ReservedName"}

\* C1 (as stated): a named registration, on any of the three surfaces, under
\* a name that is already bound fails with DuplicateNameError and leaves
\* get(name) returning the value of the first registration.
C1_DuplicateOnEverySurface ==
    [][(lastOp' \in NamedOps /\ lastName' \in Bound(dependencies))
        => /\ err' = DuplicateNameError(lastName')
           /\ DoGet(dependencies', lastName').value = dependencies[lastName']]_vars

\* C1 (amended): a named registration under a name that is already bound
\* always fails and leaves get(name) returning the value of the first
\* registration; the failure is DuplicateNameError for NamedComponent and
\* NamedComponentFromFunc, and for NamedComponentFromFactory it is
\* DuplicateNameError unless the population of the factory object or its
\* Create failed first.
C1_DuplicateName ==
    [][(lastOp' \in NamedOps /\ lastName' \in Bound(dependencies))
        => /\ err' # NoErr
           /\ DoGet(dependencies', lastName').err = NoErr
           /\ DoGet(dependencies', lastName').value = dependencies[lastName']
           /\ lastOp' # "NamedComponentFromFactory"
                 => err' = DuplicateNameError(lastName') /\ ~called'
           /\ lastOp' = "NamedComponentFromFactory"
                 => \/ err' = DuplicateNameError(lastName') /\ called'
                    \/ err'.kind = "FactoryFailure" /\ called'
                    \/ err'.kind \in {"NotInjectable", "NotRegistered", "NotAssignable",
                                      "NotFoundForType", "AmbiguousType"} /\ ~called']_vars

C1_Witness ==
    /\ lastOp = "NamedComponentFromFactory"
    /\ err = DuplicateNameError(lastName)
    /\ called
    /\ lastName \in Bound(dependencies)
    /\ dependencies[lastName] # lastDep

\* C2 (as stated): registering under "auto" fails with ReservedNameError on
\* every registration surface and in every state, before any field of the
\* candidate or of a factory object has been assigned.
C2_ReservedBeforePopulation ==
    [][(lastOp' \in NamedOps /\ lastName' = autoInjectionTag)
        => err' = ReservedNameError /\ heap' = heap]_vars

\* C2 (amended): registering under "auto" always fails and binds nothing.
\* NamedComponent and NamedComponentFromFunc fail with ReservedNameError
\* before the factory function is invoked and before any field is assigned.
\* NamedComponentFromFactory populates the factory object and invokes its
\* Create first: it fails with their error if one of them fails and with
\* ReservedNameError otherwise, and no field of the produced value is
\* assigned.
C2_ReservedName ==
    [][(lastOp' \in NamedOps /\ lastName' = autoInjectionTag)
        => /\ err' # NoErr
           /\ dependencies' = dependencies
           /\ lastOp' # "NamedComponentFromFactory"
                 => err' = ReservedNameError /\ heap' = heap /\ ~called'
           /\ lastOp' = "NamedComponentFromFactory"
                 => \/ /\ err' = ReservedNameError
                       /\ called'
                       /\ isStructPtr(lastDep'.type)
                             => heap'[lastDep'.val] = heap[lastDep'.val]
                    \/ err'.kind = "FactoryFailure" /\ called'
                    \/ err'.kind \in {"NotInjectable", "NotRegistered", "NotAssignable",
                                      "NotFoundForType", "AmbiguousType"} /\ ~called']_vars

C2_Witness ==
    /\ lastOp = "NamedComponentFromFactory"
    /\ lastName = autoInjectionTag
    /\ err = ReservedNameError
    /\ lastDep = PA
    /\ heap["oE"][2] # Zero
    /\ heap["oA"][1] = Zero

\* C3: a registration that fails, for whatever reason, leaves the table
\* exactly as it was before the call.
C3_FailedRegistrationKeepsTable ==
    [][(lastOp' \in RegisterOps /\ err' # NoErr) => dependencies' = dependencies]_vars

C3_Witness ==
    /\ lastOp = "NamedComponent"
    /\ lastDep = PE
    /\ err = NotRegisteredError("b")
    /\ heap["oE"][2] # Zero
    /\ lastName \notin Bound(dependencies)
    /\ Bound(dependencies) # {}

\* C4: in every reachable state every bound name maps to exactly one
\* dependency and the reserved name "auto" is not bound.
C4_TableInvariant ==
    /\ autoInjectionTag \notin Bound(dependencies)
    /\ \A n \in Bound(dependencies) :
          /\ n \in (Names \ {autoInjectionTag})
                   \cup {GeneratedName(k) : k \in 0..unnamedCounter}
          /\ Kind(dependencies[n].type) # "invalid"

C4_Witness ==
    /\ lastOp \in NamedOps
    /\ lastName = autoInjectionTag
    /\ err = ReservedNameError
    /\ Cardinality(Bound(dependencies)) >= 2

\* C5: a new container is empty, and no operation, successful or not,
\* removes a binding or binds a bound name to another value.
C5_Monotonic ==
    /\ dependencies = EmptyTable
    /\ [][\A n \in Bound(dependencies) :
             n \in Bound(dependencies') /\ dependencies'[n] = dependencies[n]]_vars

C5_Witness ==
    /\ Cardinality(Bound(dependencies)) = MaxDeps
    /\ lastOp = "Inject"
    /\ err # NoErr
    /\ heap["oE"][2] # Zero

\* C6: Get returns the value bound to the name, or fails with NotFoundError
\* when the name is not bound, and changes neither the table, nor the
\* counter, nor any record; a repeated Get returns the same value.
C6_Get ==
    [][lastOp' = "Get"
        => /\ dependencies' = dependencies
           /\ unnamedCounter' = unnamedCounter
           /\ heap' = heap
           /\ lastName' \in Bound(dependencies)
                 => err' = NoErr /\ ret' = dependencies[lastName']
           /\ lastName' \notin Bound(dependencies)
                 => err' = NotFoundError /\ ret' = NoValue
           /\ (lastOp = "Get" /\ lastName' = lastName) => ret' = ret]_vars

C6_Witness ==
    /\ lastOp = "Get"
    /\ lastName = "unnamed.1"
    /\ err = NoErr
    /\ ret = PA

\* the number of the name an anonymous registration must use: the smallest
\* n at or above the counter such that "unnamed.<n>" is not bound
FirstFree(d, counter) ==
    CHOOSE n \in counter..(counter + Cardinality(Bound(d))) :
        /\ GeneratedName(n) \notin Bound(d)
        /\ \A k \in counter..(n - 1) : GeneratedName(k) \in Bound(d)

\* C7: an anonymous registration uses the name "unnamed.<n>" for the
\* smallest n at or above the counter that is not bound, and when it
\* succeeds it binds its candidate under that name and nothing else; a
\* plain value is always registered.  From an empty container the names are
\* unnamed.0, unnamed.1, unnamed.2 in that order, and unnamed.1 when
\* unnamed.0 was registered explicitly.
C7_AutoNaming ==
    /\ [][lastOp' \in AnonymousOps
           => /\ lastName' = GeneratedName(FirstFree(dependencies, unnamedCounter))
              /\ lastName' \notin Bound(dependencies)
              /\ Bound(dependencies) = {} => lastName' = "unnamed.0"
              /\ Bound(dependencies) = {"unnamed.0"} => lastName' = "unnamed.1"
              /\ Bound(dependencies) = {"unnamed.0", "unnamed.1"}
                    => lastName' = "unnamed.2"
              /\ (lastOp' = "Component" /\ lastDep' \in {I10, S1}) => err' = NoErr
              /\ err' = NoErr
                    => /\ Bound(dependencies') = Bound(dependencies) \cup {lastName'}
                       /\ dependencies'[lastName'] = lastDep'
                       /\ \A n \in Bound(dependencies) :
                             dependencies'[n] = dependencies[n]]_vars
    /\ [](lastOp \in AnonymousOps /\ err = NoErr /\ lastName = "unnamed.2"
           => {"unnamed.0", "unnamed.1"} \subseteq Bound(dependencies))

C7_Witness ==
    /\ lastOp = "Component"
    /\ err = NoErr
    /\ lastName = "unnamed.2"
    /\ Bound(dependencies) = {"unnamed.0", "unnamed.1", "unnamed.2"}
    /\ unnamedCounter = 2

\* what a lookup by type must yield, by the number of dependencies whose
\* type is assignable to t
ByCount(d, t) ==
    LET m == Matches(d, t)
    IN IF m = {}
       THEN [err |-> NotFoundForTypeError(t), dep |-> NoValue]
       ELSE IF Cardinality(m) = 1
            THEN [err |-> NoErr, dep |-> d[CHOOSE n \in m : TRUE]]
            ELSE [err |-> AmbiguousTypeError(t), dep |-> NoValue]

\* C8: a lookup by type has one result whatever the order of the table, and
\* the result depends on the number of dependencies assignable to the type
\* only: NotFoundForTypeError for none, the dependency for one,
\* AmbiguousTypeError for more.  Population of a field tagged "auto" assigns
\* the single matching dependency and fails as the lookup does otherwise.
C8_TypeLookup ==
    /\ \A t \in {"int", "string", "Iface", "*TypeE", "*TypeA"} :
          findByType(dependencies, t) = {ByCount(dependencies, t)}
    /\ \A p \in populate(dependencies, heap, PE) :
          LET r == ByCount(dependencies, "int")
          IN IF r.err = NoErr
             THEN p.heap["oE"][2] = r.dep
             ELSE p.err = r.err /\ p.heap = heap
    /\ (lastOp = "Inject" /\ lastDep = PE)
          => /\ err = AmbiguousTypeError("int")
                   <=> Cardinality(Matches(dependencies, "int")) >= 2
             /\ err = NotFoundForTypeError("int")
                   <=> Matches(dependencies, "int") = {}
             /\ Cardinality(Matches(dependencies, "int")) = 1
                   => heap["oE"][2] \in {dependencies[n] : n \in Bound(dependencies)}

C8_Witness ==
    /\ lastOp = "Inject"
    /\ lastDep = PE
    /\ err = AmbiguousTypeError("int")
    /\ heap["oE"][2] # Zero
    /\ Cardinality(Matches(dependencies, "int")) = 2

\* C9: population that reaches a field tagged with a name that is not bound
\* fails with NotRegisteredError carrying that name and does not assign the
\* field.
C9_NotRegistered ==
    [][/\ (Populated(PA) /\ "a" \notin Bound(dependencies))
          => /\ err' = NotRegisteredError("a")
             /\ heap'["oA"] = heap["oA"]
       /\ (Populated(PE) /\ "b" \notin Bound(dependencies)
             /\ Cardinality(Matches(dependencies, "int")) = 1)
          => /\ err' = NotRegisteredError("b")
             /\ heap'["oE"][3] = heap["oE"][3]
             /\ heap'["oE"][2] = ByCount(dependencies, "int").dep]_vars

C9_Witness ==
    /\ lastOp = "Inject"
    /\ lastDep = PE
    /\ err = NotRegisteredError("b")
    /\ heap["oE"][2] = I10
    /\ heap["oE"][3] = Zero

\* the record type of each record of the callers
ObjType(o) == IF o = "oA" THEN "TypeA" ELSE "TypeE"

\* C10: a tagged field only ever holds a dependency assignable to the type
\* of the field; when the dependency found by name is not assignable,
\* population fails with NotAssignableError naming the field type and the
\* dependency type, the field keeps its value, and a registration binds
\* nothing.
C10_NotAssignable ==
    /\ [](\A o \in Objects : \A i \in 1..Len(heap[o]) :
            (Fields(ObjType(o))[i].tag # NoTag /\ heap[o][i] # Zero)
               => AssignableTo(heap[o][i].type, Fields(ObjType(o))[i].ftype))
    /\ [][/\ (/\ Populated(PA)
              /\ "a" \in Bound(dependencies)
              /\ ~AssignableTo(dependencies["a"].type, "int"))
             => /\ err' = NotAssignableError("int", dependencies["a"].type)
                /\ heap'["oA"] = heap["oA"]
                /\ dependencies' = dependencies
          /\ (/\ Populated(PE)
              /\ Cardinality(Matches(dependencies, "int")) = 1
              /\ "b" \in Bound(dependencies)
              /\ ~AssignableTo(dependencies["b"].type, "Iface"))
             => /\ err' = NotAssignableError("Iface", dependencies["b"].type)
                /\ heap'["oE"][3] = heap["oE"][3]
                /\ dependencies' = dependencies]_vars

C10_Witness ==
    /\ lastOp = "NamedComponent"
    /\ lastDep = PE
    /\ err = NotAssignableError("Iface", "int")
    /\ heap["oE"][2] = I10
    /\ heap["oE"][3] = Zero
    /\ lastName \notin Bound(dependencies)

\* C11: population of a candidate that is not a pointer to a record succeeds
\* and assigns nothing, whatever the table holds, except for a record passed
\* by value whose type has a tagged field: that fails with
\* NotInjectableError even when the tagged dependency is bound and
\* assignable, and a registration of it binds nothing.
C11_NotAPointer ==
    /\ [](/\ \A c \in {I10, I20, S1, FV, IA, FM} :
               populate(dependencies, heap, c) = { [err |-> NoErr, heap |-> heap] }
          /\ \A c \in {CV, EV} :
               populate(dependencies, heap, c)
                  = { [err |-> NotInjectableError(c.type), heap |-> heap] })
    /\ [][/\ \A c \in {I10, I20, S1, FV, IA} :
               Populated(c) => err' = NoErr /\ heap' = heap
          /\ Populated(CV)
               => /\ err' = NotInjectableError("TypeC")
                  /\ heap' = heap
                  /\ dependencies' = dependencies]_vars

C11_Witness ==
    /\ lastOp = "NamedComponent"
    /\ lastDep = CV
    /\ err = NotInjectableError("TypeC")
    /\ "a" \in Bound(dependencies)
    /\ AssignableTo(dependencies["a"].type, "int")
    /\ CV \notin {dependencies[n] : n \in Bound(dependencies)}

FuncOps == {"NamedComponentFromFunc", "ComponentFromFunc"}
FactoryOps == {"NamedComponentFromFactory", "ComponentFromFactory"}

\* the factory function, and the factory, a call was given
FnOf(id) == CHOOSE fn \in FactoryFns : fn.id = id
FactoryOf(id) == CHOOSE f \in Factories : f.id = id

\* the step is a registration of a function that got past the checks of the
\* name and of the kind of its input
Executed ==
    /\ lastOp' \in FuncOps
    /\ err'.kind \notin {"DuplicateName", "ReservedName", "FactoryFunctionExpected"}

\* some parameter of fn has no result in a lookup by type in d
Unresolved(d, fn) ==
    \E i \in 1..Len(fn.ins) : ByCount(d, fn.ins[i]).err # NoErr

\* C12: a factory function with no result or more than two fails with
\* UnsupportedFactoryError, one with two results whose second does not
\* implement error fails with SecondResultNotErrorError, and one with a
\* parameter that cannot be resolved fails with the error of the lookup; in
\* all these cases, and only in them, the function is not invoked, and then
\* nothing is bound and no field is assigned.
C12_ChecksBeforeInvocation ==
    [][Executed
        => LET fn == FnOf(lastIn')
               n == Len(fn.outs)
               accepted == n \in {1, 2} /\ (n = 2 => fn.outs[2] \in Implementers("error"))
           IN /\ err' = UnsupportedFactoryError <=> n \notin {1, 2}
              /\ err' = SecondResultNotErrorError
                    <=> (n = 2 /\ fn.outs[2] \notin Implementers("error"))
              /\ (accepted /\ Unresolved(dependencies, fn))
                    => err'.kind \in {"NotFoundForType", "AmbiguousType"}
              /\ called' <=> (accepted /\ ~Unresolved(dependencies, fn))
              /\ ~called' => /\ err' # NoErr
                             /\ dependencies' = dependencies
                             /\ heap' = heap]_vars

C12_Witness ==
    /\ lastOp = "NamedComponentFromFunc"
    /\ lastIn = "fnNotErr"
    /\ lastName = "a"
    /\ err = SecondResultNotErrorError
    /\ ~called
    /\ "a" \notin Bound(dependencies)

\* the first parameter of fn that has no result in a lookup by type in d
FirstUnresolved(d, fn) ==
    CHOOSE i \in 1..Len(fn.ins) :
        /\ ByCount(d, fn.ins[i]).err # NoErr
        /\ \A k \in 1..(i - 1) : ByCount(d, fn.ins[k]).err = NoErr

\* the first result of fn when each parameter is the one dependency of the
\* table assignable to the type of the parameter
FirstResult(d, fn) ==
    Val(fn.outs[1],
        IF fn.result.type = "param"
        THEN ByCount(d, fn.ins[Len(fn.ins)]).dep.val
        ELSE fn.result.val)

\* C13: a registration of a factory function resolves each parameter by a
\* lookup by type and fails with the error of the first lookup that fails;
\* it invokes the function with the values found and binds the first
\* result under the name of the registration and nothing else; when the
\* function returns an error the registration fails with that very error
\* and binds nothing.
C13_FactoryFunction ==
    [][Executed
        => LET fn == FnOf(lastIn')
           IN /\ (~called' /\ err'.kind \in {"NotFoundForType", "AmbiguousType"})
                    => /\ Unresolved(dependencies, fn)
                       /\ err' = ByCount(dependencies,
                                         fn.ins[FirstUnresolved(dependencies, fn)]).err
              /\ (called' /\ Len(fn.outs) = 2 /\ fn.fail # "")
                    => /\ err' = FactoryFailure(fn.fail)
                       /\ lastDep' = NoValue
                       /\ dependencies' = dependencies
                       /\ heap' = heap
              /\ (called' /\ ~(Len(fn.outs) = 2 /\ fn.fail # ""))
                    => /\ lastDep' = FirstResult(dependencies, fn)
                       /\ err'.kind \notin {"FactoryFailure"}
                       /\ err' # NoErr => dependencies' = dependencies
                       /\ err' = NoErr
                             => /\ Bound(dependencies')
                                     = Bound(dependencies) \cup {lastName'}
                                /\ lastName' \notin Bound(dependencies)
                                /\ dependencies'[lastName'] = FirstResult(dependencies, fn)
                                /\ \A n \in Bound(dependencies) :
                                      dependencies'[n] = dependencies[n]]_vars

C13_Witness ==
    /\ lastOp = "NamedComponentFromFunc"
    /\ lastIn = "fnEcho"
    /\ err = NoErr
    /\ called
    /\ lastName = "a"
    /\ dependencies["a"] = S1
    /\ \E n, m \in Bound(dependencies) \ {"a"} :
          dependencies[n] = S1 /\ dependencies[m].type = "int"

\* C14: NamedComponent and Component look at the kind of their input: a
\* function is run as a factory function and its first result is what is
\* bound under the name, never the function; any other input is bound as
\* it is.
C14_DispatchOnFunction ==
    [][(lastOp' \in {"NamedComponent", "Component"} /\ err' = NoErr)
        => /\ lastName' \in Bound(dependencies')
           /\ dependencies'[lastName']
                 = IF Kind(lastDep'.type) = "func"
                   THEN FirstResult(dependencies, FnOf(lastDep'.val))
                   ELSE lastDep'
           /\ \A n \in Bound(dependencies') :
                 Kind(dependencies'[n].type) # "func"]_vars

\* what a tagged field f asks for in the table d: the one dependency
\* assignable to its type for the tag "auto", else the dependency bound to
\* the tag
Wanted(d, f) ==
    IF f.tag = autoInjectionTag
    THEN ByCount(d, f.ftype)
    ELSE IF f.tag \in Bound(d)
         THEN [err |-> NoErr, dep |-> d[f.tag]]
         ELSE [err |-> NotRegisteredError(f.tag), dep |-> NoValue]

\* the error the field f has in the table d, NoErr when it has none
FieldErr(d, f) ==
    IF f.tag = NoTag
    THEN NoErr
    ELSE IF Wanted(d, f).err # NoErr
         THEN Wanted(d, f).err
         ELSE IF ~AssignableTo(Wanted(d, f).dep.type, f.ftype)
              THEN NotAssignableError(f.ftype, Wanted(d, f).dep.type)
              ELSE NoErr

\* the error of the population of the candidate c against the table d: that
\* of its first field that has one
PopulationErr(d, c) ==
    IF Kind(c.type) = "struct"
    THEN IF \E i \in 1..Len(Fields(c.type)) : Fields(c.type)[i].tag # NoTag
         THEN NotInjectableError(c.type)
         ELSE NoErr
    ELSE IF c.type \notin PtrTypes
         THEN NoErr
         ELSE LET fs == Fields(Elem(c.type))
                  bad == {i \in 1..Len(fs) : FieldErr(d, fs[i]) # NoErr}
              IN IF bad = {}
                 THEN NoErr
                 ELSE FieldErr(d, fs[CHOOSE i \in bad : \A k \in bad : i <= k])

\* C15: a registration from a factory populates the factory before Create
\* runs: when that population fails, Create is not invoked, the error of
\* the population is the error of the registration and nothing is bound;
\* when it succeeds, Create is invoked with the tagged fields of the
\* factory holding the dependencies of the table.
C15_FactoryPopulatedFirst ==
    [][lastOp' \in FactoryOps
        => LET f == FactoryOf(lastIn')
               e == PopulationErr(dependencies, f.self)
           IN /\ e # NoErr
                    => /\ err' = e
                       /\ ~called'
                       /\ lastDep' = NoValue
                       /\ dependencies' = dependencies
              /\ e = NoErr => called'
              /\ (called' /\ f.self = PE)
                    => /\ heap'["oE"][2] = ByCount(dependencies, "int").dep
                       /\ heap'["oE"][3] = dependencies["b"]]_vars

C15_Witness ==
    /\ lastOp = "NamedComponentFromFactory"
    /\ lastIn = "facInj"
    /\ err = NotRegisteredError("b")
    /\ ~called
    /\ lastDep = NoValue
    /\ lastName \notin Bound(dependencies)
    /\ heap["oE"][2] = I10

\* the step is a registration from a factory whose Create ran and failed
CreateFailed ==
    /\ lastOp' \in FactoryOps
    /\ called'
    /\ FactoryOf(lastIn').fail # ""

\* C16 (as stated): when Create fails, the registration fails with the
\* error of Create, no value is populated or bound, and the table and the
\* counter of generated names are as before the call.
C16_CreateFailureKeepsCounter ==
    [][CreateFailed
        => /\ err' = FactoryFailure(FactoryOf(lastIn').fail)
           /\ lastDep' = NoValue
           /\ heap'["oA"] = heap["oA"]
           /\ dependencies' = dependencies
           /\ unnamedCounter' = unnamedCounter]_vars

\* C16 (amended): when Create fails, the registration fails with the error
\* of Create, no value is populated or bound and the table is as before the
\* call; the counter is as before the call for NamedComponentFromFactory,
\* and for ComponentFromFactory it has moved to the first generated name
\* that is not bound.
C16_CreateFailure ==
    [][CreateFailed
        => /\ err' = FactoryFailure(FactoryOf(lastIn').fail)
           /\ lastDep' = NoValue
           /\ heap'["oA"] = heap["oA"]
           /\ dependencies' = dependencies
           /\ lastOp' = "NamedComponentFromFactory"
                 => unnamedCounter' = unnamedCounter
           /\ lastOp' = "ComponentFromFactory"
                 => /\ unnamedCounter' = FirstFree(dependencies, unnamedCounter)
                    /\ lastName' = GeneratedName(unnamedCounter')]_vars

C16_Witness ==
    /\ lastOp = "ComponentFromFactory"
    /\ lastIn = "facInjErr"
    /\ err = FactoryFailure("random error")
    /\ called
    /\ lastName = "unnamed.1"
    /\ unnamedCounter = 1
    /\ Bound(dependencies) = {"unnamed.0", "b"}
    /\ heap["oE"][3] = dependencies["b"]

\* the step is a registration from a factory whose Create ran and returned
\* a component
Created ==
    /\ lastOp' \in FactoryOps
    /\ called'
    /\ FactoryOf(lastIn').fail = ""

\* C17: when Create succeeds, the component it returned, not the factory, is
\* the candidate of the registration: under a name that can be bound it is
\* populated against the table of before the call and, when that succeeds,
\* bound under the name, so that Get returns it with its tagged field
\* holding the dependency; the registration adds no other binding, and so
\* never one of the factory.
C17_FactoryProduct ==
    [][Created
        => LET f == FactoryOf(lastIn')
               e == PopulationErr(dependencies, f.result)
           IN /\ lastDep' = f.result
              /\ \A n \in Bound(dependencies') \ {lastName'} :
                    n \in Bound(dependencies) /\ dependencies'[n] = dependencies[n]
              /\ (lastName' \notin Bound(dependencies) /\ lastName' # autoInjectionTag)
                    => /\ err' = e
                       /\ e # NoErr => dependencies' = dependencies
                       /\ e = NoErr
                             => /\ DoGet(dependencies', lastName').err = NoErr
                                /\ DoGet(dependencies', lastName').value = f.result
                                /\ f.result = PA
                                      => heap'["oA"][1] = dependencies["a"]]_vars

C17_Witness ==
    /\ lastOp = "NamedComponentFromFactory"
    /\ lastIn = "facInj"
    /\ err = NoErr
    /\ called
    /\ lastName = "unnamed.0"
    /\ dependencies["unnamed.0"] = PA
    /\ heap["oA"][1] = dependencies["a"]
    /\ heap["oE"][3] = dependencies["b"]
    /\ PE \notin {dependencies[n] : n \in Bound(dependencies)}

\* the error and the fields a call leaves, for each outcome it can have
FieldResults(outcomes) == { [err |-> r.err, heap |-> r.heap] : r \in outcomes }

\* C18: Inject has the error and assigns the fields that a registration of
\* the same object under a name that can be bound has, and it leaves the
\* table and the counter of generated names as they were, whether it fails
\* or not.
C18_Inject ==
    /\ [](\A object \in InjectInputs :
             FieldResults(DoInject(dependencies, unnamedCounter, heap, object))
                = FieldResults(DoNamedComponent(dependencies, unnamedCounter, heap,
                                                "unbound", object)))
    /\ [][lastOp' = "Inject"
           => /\ dependencies' = dependencies
              /\ unnamedCounter' = unnamedCounter
              /\ err' = PopulationErr(dependencies, lastDep')
              /\ (err' = NoErr /\ lastDep' = PE)
                    => /\ heap'["oE"][2] = ByCount(dependencies, "int").dep
                       /\ heap'["oE"][3] = dependencies["b"]
              /\ (err' = NoErr /\ lastDep' = PA)
                    => heap'["oA"][1] = dependencies["a"]]_vars

C18_Witness ==
    /\ lastOp = "Inject"
    /\ lastDep = PE
    /\ err = NoErr
    /\ heap["oE"][2] = I10
    /\ heap["oE"][3] = dependencies["b"]
    /\ PE \notin {dependencies[n] : n \in Bound(dependencies)}
    /\ unnamedCounter = 0

\* C19: every operation has a call style that returns its failure to the
\* caller next to one that panics with it.  Injector has one method for
\* each operation, so the method is both styles: a call that fails returns,
\* and no panic is left for the caller to recover from.
C19_ReturningStyle ==
    [][lastOp' \in RegisterOps \cup {"Get", "Inject"} => Running']_vars

\* C20: nothing is resolved later than the call that asks for it.  The
\* population of a candidate has the error the table of before the call
\* gives it, so a record registered before a dependency it names fails, and
\* a record tagged with the name it is registered under fails with
\* NotRegisteredError; a call binds at most the name it was given and
\* leaves every other binding alone, and it assigns fields of no record
\* but its candidate and its factory.
C20_NoDeferredResolution ==
    [][/\ (/\ lastOp' \in {"NamedComponent", "Component"}
           /\ err'.kind \notin {"DuplicateName", "ReservedName"})
             => /\ err' = PopulationErr(dependencies, lastDep')
                /\ err' # NoErr => dependencies' = dependencies
       /\ (Populated(PA) /\ "a" \notin Bound(dependencies))
             => /\ err' = NotRegisteredError("a")
                /\ dependencies' = dependencies
                /\ heap'["oA"] = heap["oA"]
       /\ \A n \in Bound(dependencies') \ Bound(dependencies) : n = lastName'
       /\ \A n \in Bound(dependencies) :
             n \in Bound(dependencies') /\ dependencies'[n] = dependencies[n]
       /\ \A o \in Objects :
             heap'[o] # heap[o]
                => \/ lastDep' = Val("*" \o ObjType(o), o)
                   \/ /\ lastOp' \in FactoryOps
                      /\ FactoryOf(lastIn').self = Val("*" \o ObjType(o), o)]_vars

C20_Witness ==
    /\ lastOp = "NamedComponent"
    /\ lastName = "a"
    /\ lastDep = PA
    /\ err = NotRegisteredError("a")
    /\ "a" \notin Bound(dependencies)
    /\ Matches(dependencies, "int") # {}
    /\ heap["oA"] = << Zero >>

\* the generated names bound in d in a row from "unnamed.<counter>" on: the
\* collisions of an anonymous registration
Collisions(d, counter) ==
    {k \in counter..(counter + Cardinality(Bound(d))) :
        \A j \in counter..k : GeneratedName(j) \in Bound(d)}

\* C21: the counter moves only in an anonymous registration, and there by
\* one for each generated name it finds bound: when "unnamed.<counter>" is
\* not bound the counter stays, so it is still 0 after the first anonymous
\* registration into an empty container.
C21_CounterOnCollision ==
    [][/\ lastOp' \notin AnonymousOps => unnamedCounter' = unnamedCounter
       /\ lastOp' \in AnonymousOps
             => /\ GeneratedName(unnamedCounter) \notin Bound(dependencies)
                      => unnamedCounter' = unnamedCounter
                /\ unnamedCounter' = unnamedCounter
                      + Cardinality(Collisions(dependencies, unnamedCounter))
                /\ Bound(dependencies) = {} => unnamedCounter' = 0]_vars

C21_Witness ==
    /\ lastOp = "ComponentFromFunc"
    /\ err = NoErr
    /\ lastName = "unnamed.1"
    /\ unnamedCounter = 1
    /\ Bound(dependencies) = {"unnamed.0", "unnamed.1"}

\* C22 (as stated): an anonymous registration that fails leaves the table
\* and the counter of generated names as they were, and the next anonymous
\* registration is given the name the failed one was given.
C22_FailureKeepsCounter ==
    [][(lastOp' \in AnonymousOps /\ err' # NoErr)
        => /\ dependencies' = dependencies
           /\ unnamedCounter' = unnamedCounter
           /\ nextGeneratedName(dependencies', unnamedCounter').name = lastName']_vars

\* C22 (amended): an anonymous registration that fails leaves the table as
\* it was and binds nothing under the name it was given, so the next
\* anonymous registration is given that name again; the counter has moved
\* past the generated names that were bound, and stays when
\* "unnamed.<counter>" was not bound.
C22_FailureConsumesNoName ==
    [][(lastOp' \in AnonymousOps /\ err' # NoErr)
        => /\ dependencies' = dependencies
           /\ lastName' \notin Bound(dependencies')
           /\ unnamedCounter' = FirstFree(dependencies, unnamedCounter)
           /\ GeneratedName(unnamedCounter) \notin Bound(dependencies)
                 => unnamedCounter' = unnamedCounter
           /\ lastName' = GeneratedName(unnamedCounter')
           /\ nextGeneratedName(dependencies', unnamedCounter').name = lastName']_vars

C22_Witness ==
    /\ lastOp = "Component"
    /\ lastDep = PA
    /\ err = NotRegisteredError("a")
    /\ lastName = "unnamed.1"
    /\ unnamedCounter = 1
    /\ Bound(dependencies) = {"unnamed.0"}

\* C25: the counter of generated names is never negative and never
\* decreases, and every generated name with a number below the counter is
\* bound.
C25_CounterInvariant ==
    /\ [](/\ unnamedCounter >= 0
          /\ \A k \in 0..(unnamedCounter - 1) :
                GeneratedName(k) \in Bound(dependencies))
    /\ [][unnamedCounter' >= unnamedCounter]_vars

C25_Witness ==
    /\ unnamedCounter = 2
    /\ {"unnamed.0", "unnamed.1"} \subseteq Bound(dependencies)
    /\ "unnamed.2" \notin Bound(dependencies)
    /\ lastOp \in AnonymousOps
    /\ err # NoErr

\* C23: population takes the tagged fields in the order of their
\* declaration and stops at the first one that fails, undoing nothing: the
\* error is that of the first failing field, the tagged fields before it
\* hold their dependencies, and the failing field and the fields after it
\* keep the values they had.
C23_StopAtFirstFailure ==
    [][Populated(PE)
        => LET fs == Fields("TypeE")
               first == FieldErr(dependencies, fs[2])
               second == FieldErr(dependencies, fs[3])
           IN /\ first # NoErr
                    => /\ err' = first
                       /\ heap'["oE"] = heap["oE"]
              /\ (first = NoErr /\ second # NoErr)
                    => /\ err' = second
                       /\ heap'["oE"][2] = Wanted(dependencies, fs[2]).dep
                       /\ heap'["oE"][3] = heap["oE"][3]
              /\ (first = NoErr /\ second = NoErr)
                    => /\ err' = NoErr
                       /\ heap'["oE"][2] = Wanted(dependencies, fs[2]).dep
                       /\ heap'["oE"][3] = Wanted(dependencies, fs[3]).dep]_vars

C23_Witness ==
    /\ lastOp = "Inject"
    /\ lastDep = PE
    /\ err = NotAssignableError("Iface", "string")
    /\ dependencies["b"] = S1
    /\ heap["oE"][2] = I20
    /\ heap["oE"][3] = Zero

\* the pointer to the record o
PtrTo(o) == Val("*" \o ObjType(o), o)

\* C24: population assigns only the tagged fields of the record its
\* candidate points to.  A field without a tag keeps its value, a record
\* held in such a field included; a record that a dependency points to is
\* not populated when the dependency is assigned to a field; and the
\* dependencies of the table are the values they were.
C24_OnlyTopLevelTaggedFields ==
    /\ [](heap["oE"][1] = Val("int", "7") /\ heap["oE"][4] = CV)
    /\ [][/\ \A o \in Objects : \A i \in 1..Len(heap[o]) :
               Fields(ObjType(o))[i].tag = NoTag => heap'[o][i] = heap[o][i]
          /\ \A o \in Objects :
               heap'[o] # heap[o]
                  => \/ lastDep' = PtrTo(o)
                     \/ lastOp' \in FactoryOps /\ FactoryOf(lastIn').self = PtrTo(o)
          /\ (Populated(PE) /\ err' = NoErr)
               => /\ heap'["oE"][3] = dependencies["b"]
                  /\ heap'["oA"] = heap["oA"]
          /\ \A n \in Bound(dependencies) :
               n \in Bound(dependencies') /\ dependencies'[n] = dependencies[n]]_vars

C24_Witness ==
    /\ lastOp = "Inject"
    /\ lastDep = PE
    /\ err = NoErr
    /\ heap["oE"][1] = Val("int", "7")
    /\ heap["oE"][3] = IA
    /\ heap["oE"][4] = CV
    /\ "a" \in Bound(dependencies)
    /\ AssignableTo(dependencies["a"].type, "int")
    /\ heap["oA"][1] = Zero

\* the step is a named registration under a name that is bound
NameTaken ==
    /\ lastOp' \in NamedOps
    /\ lastName' \in Bound(dependencies)

\* C26 (as stated): a named registration under a bound name fails before
\* anything else happens: no factory function and no Create is invoked and
\* no field of any record is assigned.
C26_ValidationFirstEverywhere ==
    [][NameTaken => /\ err' # NoErr
                    /\ ~called'
                    /\ heap' = heap]_vars

\* C26 (amended): a named registration under a bound name fails and binds
\* nothing.  NamedComponent and NamedComponentFromFunc fail with
\* DuplicateNameError before the function is invoked and before any field
\* is assigned.  NamedComponentFromFactory first populates the factory and,
\* when that succeeds, invokes Create; the name is validated next, before
\* any field of the component Create returned is assigned.
C26_ValidationFirst ==
    [][NameTaken
        => /\ err' # NoErr
           /\ dependencies' = dependencies
           /\ unnamedCounter' = unnamedCounter
           /\ lastOp' # "NamedComponentFromFactory"
                 => /\ err' = DuplicateNameError(lastName')
                    /\ ~called'
                    /\ heap' = heap
           /\ lastOp' = "NamedComponentFromFactory"
                 => LET f == FactoryOf(lastIn')
                    IN /\ \A o \in Objects : heap'[o] # heap[o] => f.self = PtrTo(o)
                       /\ called' <=> PopulationErr(dependencies, f.self) = NoErr
                       /\ ~called' => err' = PopulationErr(dependencies, f.self)
                       /\ (called' /\ f.fail # "") => err' = FactoryFailure(f.fail)
                       /\ (called' /\ f.fail = "")
                             => err' = DuplicateNameError(lastName')]_vars

C26_Witness ==
    /\ lastOp = "NamedComponentFromFactory"
    /\ lastIn = "facInj"
    /\ lastName = "a"
    /\ err = DuplicateNameError("a")
    /\ called
    /\ AssignableTo(dependencies["a"].type, "int")
    /\ heap["oA"][1] = Zero
    /\ heap["oE"][3] = dependencies["b"]

\* the step ends a registration whose factory registered and returned
Completes ==
    /\ pending.stage = "returned"
    /\ pending' = NoCall

\* C27: a registration whose factory function or Create registered into
\* the same container never replaces a binding made in the meantime: when
\* its name is bound by the time it stores its result it fails with
\* DuplicateNameError, else it binds the name, and every binding stays what
\* the first registration under its name made it.
C27_NoOverwrite ==
    [][Completes
        => /\ \A n \in Bound(dependencies) :
                 n \in Bound(dependencies') /\ dependencies'[n] = dependencies[n]
           /\ pending.name \in Bound(dependencies)
                 => err' = DuplicateNameError(pending.name)
           /\ pending.name \notin Bound(dependencies)
                 => /\ err' = NoErr
                    /\ pending.name \in Bound(dependencies')
                    /\ dependencies'[pending.name] = lastDep']_vars

====
